---- MODULE Spec2Model ----
(***************************************************************************)
(* A model of extract_yara_batch.py: the batch runner that, for every      *)
(* sample, extracts the sample into a temporary directory, walks the       *)
(* extracted members, renames the members whose path is not printable,     *)
(* scans the original file and every member with the compiled rules and    *)
(* removes the temporary directory.                                        *)
(*                                                                         *)
(* Paths are sequences of one-character strings; "/" is os.path.sep.       *)
(* The event loop is single threaded: one action is one step of one        *)
(* coroutine, from one suspension point (await) to the next.               *)
(***************************************************************************)
EXTENDS Naturals, Integers, Sequences, FiniteSets, TLC

\* ------------------------------------------------------------------ bounds

\* Number of samples in the sample list of the detailed specification.
NumSamples == 2

\* Number of members of the archive among the samples of a run.
MaxMembers == 2

\* Largest number of match objects rules.match returns for one file.
MaxMatches == 1

\* Number of samples in the sample list of the wide specification.
WideSamples == 5

\* Number of samples in the sample list of the specification of two archives.
PairSamples == 2

\* Longest path handed to clean_and_ensure_path or clean_string on its own.
MaxPathLen == 4

\* Largest number of files and directories in a tree handed to
\* sanitize_directory.
MaxEntries == 2

\* ------------------------------------------------------- program constants

\* sem = asyncio.Semaphore(4)
SemValue == 4

\* ------------------------------------------------------------- characters

Sep == "/"

\* string.ascii_letters + string.digits, restricted to the model's alphabet
AsciiLettersDigits == {"a", "b", "c", "d", "s", "w", "1", "2", "3", "4", "5", "6", "7"}

\* "-_.() " + letters + digits (line 152); on nt the replace() of line 155
\* removes nothing, because the nine characters never occur as a substring.
valid_chars == {"-", "_", ".", "(", ")", " "} \cup AsciiLettersDigits

\* string.printable: letters, digits, punctuation and whitespace
printable == valid_chars \cup {"#", Sep}

\* Characters outside string.printable (a control character, a non-ASCII one)
NonPrintable == {"NUL", "E9"}

\* What random.choice(string.ascii_letters + string.digits) may return
RandChars == {"a", "b"}

Digit == <<"1", "2", "3", "4", "5", "6", "7">>

NoPath == <<"?">>

\* ------------------------------------------------------------------ paths

RECURSIVE Split(_)
\* str.split(os.path.sep)
Split(p) ==
  IF p = <<>> THEN << <<>> >>
  ELSE LET rest == Split(Tail(p)) IN
       IF Head(p) = Sep THEN << <<>> >> \o rest
       ELSE << <<Head(p)>> \o rest[1] >> \o Tail(rest)

RECURSIVE Join(_)
\* os.path.sep.join(parts)
Join(parts) ==
  IF Len(parts) = 0 THEN <<>>
  ELSE IF Len(parts) = 1 THEN parts[1]
  ELSE parts[1] \o <<Sep>> \o Join(Tail(parts))

NonEmpty(part) == part # <<>>

\* The absolute, normalised path the operating system resolves p to.
Resolve(p, dir) ==
  LET segs == SelectSeq(Split(p), NonEmpty)
      base == IF p # <<>> /\ p[1] = Sep THEN <<>> ELSE SelectSeq(Split(dir), NonEmpty)
  IN <<Sep>> \o Join(base \o segs)

\* str.startswith
StartsWith(p, q) == Len(p) >= Len(q) /\ SubSeq(p, 1, Len(q)) = q

\* os.path.basename
Basename(p) == LET parts == Split(p) IN parts[Len(parts)]

\* The position of the last separator of p, 0 when it has none.
LastSep(p) ==
  IF \E i \in 1..Len(p) : p[i] = Sep
  THEN CHOOSE i \in 1..Len(p) : p[i] = Sep /\ \A j \in (i + 1)..Len(p) : p[j] # Sep
  ELSE 0

\* os.path.dirname: what comes before the last separator, with that
\* separator and, unless nothing else is left, without trailing separators.
Dirname(p) ==
  LET head == SubSeq(p, 1, LastSep(p))
      other == {i \in 1..Len(head) : head[i] # Sep}
  IN IF other = {} THEN head
     ELSE SubSeq(head, 1, CHOOSE i \in other : \A j \in other : j <= i)

\* os.path.join(a, b) for a relative b
PathJoin(a, b) ==
  IF a = <<>> THEN b
  ELSE IF a[Len(a)] = Sep THEN a \o b
  ELSE a \o <<Sep>> \o b

\* Whether the resolved path p lies under the resolved directory d.
IsUnder(p, d) == StartsWith(p, d \o <<Sep>>)

is_valid_path(path) == \A i \in 1..Len(path) : path[i] \in printable

\* The random choices clean_string may draw for input_str: one per character,
\* used only at the characters that are replaced.
RandomDraws(input_str) ==
  {r \in [1..Len(input_str) -> RandChars] :
     \A i \in 1..Len(input_str) : input_str[i] \in valid_chars => r[i] = "a"}

InValid(c) == c \in valid_chars

clean_string_drops(input_str, is_filename, r) == SelectSeq(input_str, InValid)

\* clean_string (lines 152-159); r[i] is what random.choice returns for the
\* i-th character.
clean_string(input_str, is_filename, r) ==
  IF is_filename
  THEN [i \in 1..Len(input_str) |->
          IF input_str[i] \in valid_chars THEN input_str[i] ELSE r[i]]
  ELSE SelectSeq(input_str, InValid)

CleanDir(part) == clean_string(part, FALSE, <<>>)

Map(f(_), s) == [i \in 1..Len(s) |-> f(s[i])]

\* The path clean_and_ensure_path returns (lines 170-174, 178).
clean_and_ensure_path(full_path, r) ==
  LET path_parts == Split(full_path)
      cleaned_parts == Map(CleanDir, SelectSeq(SubSeq(path_parts, 1, Len(path_parts) - 1), NonEmpty))
      cleaned_filename == clean_string(path_parts[Len(path_parts)], TRUE, r)
  IN Join(cleaned_parts \o <<cleaned_filename>>)

\* os.makedirs('') raises: the directory part of the new path is empty (lines 175-176).
EnsureRaises(new_path) == Dirname(new_path) = <<>>

\* ----------------------------------------------------------------- inputs

\* Names an archive may hold, relative to the directory it is extracted to:
\* a printable name, a name that is one non-printable character, and a
\* printable name inside a directory whose name is not printable.
MemberNames == { <<"a">>, <<"NUL">>, <<"E9", Sep, "b">> }

\* The working directory of the process: some directory other than the root
\* and other than the one mkdtemp() works in.
Cwds == { <<Sep, "c">> }

\* files_list: the sample paths handed to run_yara_rules_async
SamplePath(s) == <<Sep, "s", Digit[s]>>

RECURSIVE SumCard(_, _)
SumCard(f, n) == IF n = 0 THEN 0 ELSE Cardinality(f[n]) + SumCard(f, n - 1)

\* ------------------------------------------------------------------ state

VARIABLES
  cwd,             \* os.getcwd()
  files_list,      \* the sample list
  tool_starts,     \* per sample: whether asyncio.create_subprocess_exec starts the tool
  archive,         \* per sample: the member names the sample holds as an archive
  fs,              \* the regular files on disk, as resolved absolute paths
  wsdirs,          \* the temporary directories on disk
  batch,           \* run_yara_rules_async: "init", "running", "returned", "raised", "config_error"
  batch_results,   \* what run_yara_rules_async returned
  pc,              \* per sample: "created", "extracting", "matching", "done"
  outcome,         \* per sample: "none", "returned", "cancelled", or one of Raised
  ret,             \* per sample: the list scan_and_extract_async returned
  temp_dir,        \* per sample: the directory mkdtemp() made, or NoPath
  returncode,      \* per sample: process.returncode, -1 while the tool runs
  files_to_scan,   \* per sample: the list of lines 201-206
  number_of_files, \* per sample: line 208
  idx,             \* per sample: position of the for loop of line 212
  full_path,       \* per sample: the loop variable after lines 214-217
  results,         \* per sample: the local list "results"
  scan_future,     \* per sample: <<>> while the executor's call runs, then <<its outcome>>
  orphan,          \* per sample: the file a worker thread still scans after
                   \* the coroutine that submitted the call was cancelled
  rule_files,      \* the files under yara_rules_path, relative to it
  rules,           \* the dictionary handed to yara.compile, once the rules are compiled
  call_args,       \* a function called on its own: its name and arguments
  call_result      \* what the successive calls of that function gave

\* The local variables of a coroutine (returncode .. scan_future) are kept
\* while it runs and are gone when it has ended.

vars == <<cwd, files_list, tool_starts, archive, fs, wsdirs, batch, batch_results,
          pc, outcome, ret, temp_dir, returncode, files_to_scan, number_of_files,
          idx, full_path, results, scan_future, orphan, rule_files, rules,
          call_args, call_result>>

\* The state of a run of the batch.
run_vars == <<cwd, files_list, tool_starts, archive, fs, wsdirs, batch, batch_results,
              pc, outcome, ret, temp_dir, returncode, files_to_scan, number_of_files,
              idx, full_path, results, scan_future, orphan, rule_files, rules>>

Samples == 1..Len(files_list)

\* How a coroutine ends with an exception: raised by extract_file_async, by
\* lines 215-216, or by scan_file_async.
Raised == {"raised_extract", "raised_move", "raised_scan"}

R(p) == Resolve(p, cwd)

isfileAlways(path, files) == TRUE

\* os.path.isfile(file_path), line 190
isfile(path, files) == R(path) \in files

\* tempfile.mkdtemp(): a fresh directory, no two calls return the same one
mkdtemp(s) == <<Sep, "w", Digit[s]>>

\* shutil.rmtree(temp_dir)
rmtree(files, dir) == {f \in files : ~IsUnder(f, dir)}

\* shutil.move(src, dst) of a regular file: a rename that replaces dst
move(files, src, dst) == (files \ {R(src)}) \cup {R(dst)}

\* The files under a directory, as os.walk finds them.
FilesUnder(files, dir) == {f \in files : IsUnder(f, dir)}

Depth(p) == Len(Split(p))

\* os.walk(temp_dir), flattened to the files' paths (lines 204-206): the
\* files of a directory come before those of its sub-directories; the order
\* of the entries of one directory is the file system's.
WalkOrders(found) ==
  {q \in [1..Cardinality(found) -> found] :
     /\ \A i, j \in 1..Cardinality(found) : i # j => q[i] # q[j]
     /\ \A i, j \in 1..Cardinality(found) : i < j => Depth(q[i]) <= Depth(q[j])}

\* What rules.match(file_path) may do (line 51): raise yara.Error, or return
\* n match objects. A file that is not on disk cannot be opened.
EngineOutcomes(path, files) ==
  {[raises |-> TRUE, n |-> 0]} \cup
  (IF R(path) \in files THEN {[raises |-> FALSE, n |-> k] : k \in 0..MaxMatches} ELSE {})

extract_file_async_checked(code) == [raised |-> code # 0]

\* extract_file_async after the tool ended (lines 37-38): a non-zero exit
\* status is logged, nothing is raised.
extract_file_async(code) == [raised |-> FALSE]

scan_file_async_uncaught(o) ==
  [raised |-> o.raises, value |-> [j \in 1..o.n |-> j]]

\* scan_file_async (lines 92-97): the matches, or [] when yara.Error was raised.
\* A match is named by its position in the list rules.match returned.
scan_file_async(o) ==
  [raised |-> FALSE, value |-> IF o.raises THEN <<>> ELSE [j \in 1..o.n |-> j]]

\* The record named after the path the walk listed.
ResultRecordOfListedPath(s, path, count, match) ==
  [file_path |-> files_list[s],
   sub_file_basename |-> Basename(files_to_scan[s][idx[s]]),
   number_of_files |-> count,
   match |-> match]

\* The dictionary of lines 222-228.
ResultRecord(s, path, count, match) ==
  [file_path |-> files_list[s],
   sub_file_basename |-> Basename(path),
   number_of_files |-> count,
   match |-> match]

CountMembers(list) == Len(list) - 1

\* len(files_to_scan), line 208.
CountFiles(list) == Len(list)

\* The extension of a rule file, as one element of a name.
Yar == ".yar"

\* name.endswith(".yar"), line 249
IsRuleFile(f) == Basename(f)[Len(Basename(f))] = Yar

NotYar(c) == c # Yar

\* os.path.basename(file_path).replace(".yar", ""), line 249
Namespace(f) == SelectSeq(Basename(f), NotYar)

\* The dictionary of line 249 for the files in the order os.walk gives them,
\* as its set of (key, value) pairs: a later file with the same key replaces
\* an earlier one.
yara_files(walk) ==
  {<<Namespace(walk[i]), walk[i]>> :
     i \in {k \in 1..Len(walk) :
              \A j \in (k + 1)..Len(walk) : Namespace(walk[j]) # Namespace(walk[k])}}

\* No rules are compiled yet.
NoRules == {<<"?">>}

KeepsOldPath(old, new) == old

\* full_path = new_full_path, line 217.
Renamed(old, new) == new

\* ------------------------------------------------------------------- init

\* A run: n samples, any of them missing on disk; at most `archives` of those
\* on disk are archives with members, the others are plain files; the tool
\* fails to start for the samples of one of the sets `failing`.
TypeInit(n, archives, arch, failing) ==
  /\ cwd \in Cwds
  /\ files_list = [s \in 1..n |-> SamplePath(s)]
  /\ \E present \in SUBSET (1..n) :
       /\ fs = {SamplePath(s) : s \in present}
       /\ archive \in {a \in [1..n -> SUBSET arch] :
                         /\ SumCard(a, n) <= MaxMembers
                         /\ Cardinality({s \in 1..n : a[s] # {}}) <= archives
                         /\ \A s \in 1..n : s \notin present => a[s] = {}}
       /\ \E f \in failing : /\ f \subseteq present
                               /\ tool_starts = [s \in 1..n |-> s \notin f]
  /\ wsdirs = {}
  /\ rules = NoRules
  /\ batch = "init"
  /\ batch_results = <<>>
  /\ pc = [s \in 1..n |-> "created"]
  /\ outcome = [s \in 1..n |-> "none"]
  /\ ret = [s \in 1..n |-> <<>>]
  /\ temp_dir = [s \in 1..n |-> NoPath]
  /\ returncode = [s \in 1..n |-> -1]
  /\ files_to_scan = [s \in 1..n |-> <<>>]
  /\ number_of_files = [s \in 1..n |-> 0]
  /\ idx = [s \in 1..n |-> 0]
  /\ full_path = [s \in 1..n |-> NoPath]
  /\ results = [s \in 1..n |-> <<>>]
  /\ scan_future = [s \in 1..n |-> <<>>]
  /\ orphan = [s \in 1..n |-> NoPath]

\* The batch is run; no function is called on its own.
NoCall == call_args = <<>> /\ call_result = <<>>

\* A rules directory with one rule file.
OneRuleFile == rule_files = {<<"x", Yar>>}

\* What a rules directory may hold: rule files, one of them in a
\* sub-directory and with the name of another, and a file that is no rule file.
RuleNames == {<<"x", Yar>>, <<"d", Sep, "x", Yar>>, <<"z", Yar>>, <<"n", ".txt">>}

Init == TypeInit(NumSamples, 1, MemberNames, SUBSET (1..NumSamples)) /\ NoCall /\ OneRuleFile

\* A long sample list of plain files.
InitWide ==
  TypeInit(WideSamples, 0, {}, SUBSET (1..WideSamples)) /\ NoCall /\ OneRuleFile

\* Two samples, both of which may be archives, and a tool that starts.
InitPair ==
  TypeInit(PairSamples, PairSamples, MemberNames, {{}}) /\ NoCall /\ OneRuleFile

\* Samples that are plain files, and any rules directory.
InitRules ==
  /\ TypeInit(NumSamples, 0, {}, SUBSET (1..NumSamples))
  /\ NoCall
  /\ rule_files \in SUBSET RuleNames

\* ---------------------------------------------------------------- actions

AllStarted == \A s \in Samples : pc[s] # "created"

\* The coroutine of sample s ends: its local variables are gone.
DropLocals(s) ==
  /\ returncode' = [returncode EXCEPT ![s] = -1]
  /\ files_to_scan' = [files_to_scan EXCEPT ![s] = <<>>]
  /\ number_of_files' = [number_of_files EXCEPT ![s] = 0]
  /\ idx' = [idx EXCEPT ![s] = 0]
  /\ full_path' = [full_path EXCEPT ![s] = NoPath]
  /\ results' = [results EXCEPT ![s] = <<>>]
  /\ scan_future' = [scan_future EXCEPT ![s] = <<>>]

FinallySkipsCleanup(s, dir, dirs, files, how, value) ==
  /\ fs' = files
  /\ wsdirs' = dirs
  /\ pc' = [pc EXCEPT ![s] = "done"]
  /\ outcome' = [outcome EXCEPT ![s] = how]
  /\ ret' = [ret EXCEPT ![s] = value]
  /\ DropLocals(s)

\* The finally clause of lines 234-235, with `dirs` and `files` on disk, then
\* the coroutine ends: it returns `value` (line 237) or passes the exception on.
Finally(s, dir, dirs, files, how, value) ==
  /\ fs' = rmtree(files, dir)
  /\ wsdirs' = dirs \ {dir}
  /\ pc' = [pc EXCEPT ![s] = "done"]
  /\ outcome' = [outcome EXCEPT ![s] = how]
  /\ ret' = [ret EXCEPT ![s] = value]
  /\ DropLocals(s)

\* Line 219: the call is handed to the executor and the coroutine waits.
Submit(s, list, count, i, path, files, res) ==
  /\ fs' = files
  /\ returncode' = [returncode EXCEPT ![s] = -1]
  /\ files_to_scan' = [files_to_scan EXCEPT ![s] = list]
  /\ number_of_files' = [number_of_files EXCEPT ![s] = count]
  /\ idx' = [idx EXCEPT ![s] = i]
  /\ full_path' = [full_path EXCEPT ![s] = path]
  /\ results' = [results EXCEPT ![s] = res]
  /\ scan_future' = [scan_future EXCEPT ![s] = <<>>]
  /\ pc' = [pc EXCEPT ![s] = "matching"]
  /\ UNCHANGED <<wsdirs, outcome, ret>>

\* All members are renamed before the first scan is submitted.
LoopHeadRenamesAll(s, list, count, i, files, res) ==
  IF i > Len(list)
  THEN Finally(s, temp_dir[s], wsdirs, files, "returned", res)
  ELSE \E r \in RandomDraws(Basename(list[i])) :
         Submit(s, list, count, i, clean_and_ensure_path(list[i], r),
                {IF is_valid_path(f) THEN f ELSE R(clean_and_ensure_path(f, r)) : f \in files},
                res)

\* Lines 212-219 for the i-th file, and lines 233-237 after the last one.
\* move_fails: clean_and_ensure_path or shutil.move raises OSError; nothing
\* catches it, so the finally clause runs and the coroutine ends with it.
LoopHead(s, list, count, i, files, res) ==
  IF i > Len(list)
  THEN Finally(s, temp_dir[s], wsdirs, files, "returned", res)
  ELSE IF StartsWith(list[i], temp_dir[s]) /\ ~is_valid_path(list[i])
  THEN \E r \in RandomDraws(Basename(list[i])), move_fails \in BOOLEAN :
         LET new_full_path == clean_and_ensure_path(list[i], r) IN
         IF move_fails \/ EnsureRaises(new_full_path) \/ R(list[i]) \notin files
         THEN Finally(s, temp_dir[s], wsdirs, files, "raised_move", <<>>)
         ELSE Submit(s, list, count, i, Renamed(list[i], new_full_path),
                     move(files, list[i], new_full_path), res)
  ELSE Submit(s, list, count, i, list[i], files, res)

\* run_yara_rules_async up to the await of line 266: the rule files are
\* collected and compiled (yara.compile may raise, for a file it cannot
\* compile) and one task per sample is created.
RunStart ==
  /\ batch = "init"
  /\ \E walk \in WalkOrders({f \in rule_files : IsRuleFile(f)}), compiled \in BOOLEAN :
       IF compiled
       THEN batch' = "running" /\ rules' = yara_files(walk)
       ELSE batch' = "config_error" /\ rules' = rules
  /\ UNCHANGED <<rule_files, call_args, call_result>>
  /\ UNCHANGED <<cwd, files_list, tool_starts, archive, fs, wsdirs, batch_results,
                 pc, outcome, ret, temp_dir, returncode, files_to_scan,
                 number_of_files, idx, full_path, results, scan_future, orphan>>

\* scan_and_extract_async from its start to the await of line 36. The tasks
\* of gather() take their first step in the order of the sample list.
\* When asyncio.create_subprocess_exec raises OSError instead of starting the
\* tool, the finally clause runs and the coroutine ends with the exception.
TaskStart(s) ==
  /\ batch = "running"
  /\ pc[s] = "created"
  /\ \A j \in 1..(s - 1) : pc[j] # "created"
  /\ IF ~isfile(files_list[s], fs)
     THEN /\ pc' = [pc EXCEPT ![s] = "done"]
          /\ outcome' = [outcome EXCEPT ![s] = "returned"]
          /\ UNCHANGED <<temp_dir, fs, wsdirs, ret, returncode, files_to_scan,
                         number_of_files, idx, full_path, results, scan_future>>
     ELSE /\ temp_dir' = [temp_dir EXCEPT ![s] = mkdtemp(s)]
          /\ IF tool_starts[s]
             THEN /\ pc' = [pc EXCEPT ![s] = "extracting"]
                  /\ wsdirs' = wsdirs \cup {mkdtemp(s)}
                  /\ UNCHANGED <<fs, outcome, ret, returncode, files_to_scan,
                                 number_of_files, idx, full_path, results, scan_future>>
             ELSE Finally(s, mkdtemp(s), wsdirs \cup {mkdtemp(s)}, fs, "raised_extract", <<>>)
  /\ UNCHANGED <<rule_files, rules, call_args, call_result>>
  /\ UNCHANGED <<cwd, files_list, tool_starts, archive, batch, batch_results, orphan>>

\* The external tool ends. It leaves all members of the archive when it
\* exits with 0 and any part of them when it fails.
ToolExits(s) ==
  /\ pc[s] = "extracting"
  /\ returncode[s] = -1
  /\ \E code \in {0, 2}, written \in SUBSET archive[s] :
       /\ code = 0 => written = archive[s]
       /\ returncode' = [returncode EXCEPT ![s] = code]
       /\ fs' = fs \cup {temp_dir[s] \o <<Sep>> \o m : m \in written}
  /\ UNCHANGED <<rule_files, rules, call_args, call_result>>
  /\ UNCHANGED <<cwd, files_list, tool_starts, archive, wsdirs, batch, batch_results,
                 pc, outcome, ret, temp_dir, files_to_scan, number_of_files, idx,
                 full_path, results, scan_future, orphan>>

\* process.communicate() returns; extract_file_async returns (lines 36-38)
\* and scan_and_extract_async runs on to the await of its first scan (200-219).
ExtractReturns(s) ==
  /\ AllStarted
  /\ pc[s] = "extracting"
  /\ returncode[s] # -1
  /\ IF extract_file_async(returncode[s]).raised
     THEN Finally(s, temp_dir[s], wsdirs, fs, "raised_extract", <<>>)
     ELSE \E walk \in WalkOrders(FilesUnder(fs, temp_dir[s])) :
            LET list == <<files_list[s]>> \o walk IN
            LoopHead(s, list, CountFiles(list), 1, fs, <<>>)
  /\ UNCHANGED <<rule_files, rules, call_args, call_result>>
  /\ UNCHANGED <<cwd, files_list, tool_starts, archive, batch, batch_results,
                 temp_dir, orphan>>

\* The worker thread's scan_file call ends (lines 51-78).
ScanEnds(s) ==
  /\ pc[s] = "matching"
  /\ scan_future[s] = <<>>
  /\ \E o \in EngineOutcomes(full_path[s], fs) :
       scan_future' = [scan_future EXCEPT ![s] = <<o>>]
  /\ UNCHANGED <<rule_files, rules, call_args, call_result>>
  /\ UNCHANGED <<cwd, files_list, tool_starts, archive, fs, wsdirs, batch,
                 batch_results, pc, outcome, ret, temp_dir, returncode, files_to_scan,
                 number_of_files, idx, full_path, results, orphan>>

\* scan_file_async returns (lines 94-97), the matches become records
\* (220-229) and the loop goes on to the next file.
MatchReturns(s) ==
  /\ pc[s] = "matching"
  /\ scan_future[s] # <<>>
  /\ LET got == scan_file_async(scan_future[s][1])
         detailed_matches == got.value
         new == [j \in 1..Len(detailed_matches) |->
                   ResultRecord(s, full_path[s], number_of_files[s], detailed_matches[j])]
     IN IF got.raised
        THEN Finally(s, temp_dir[s], wsdirs, fs, "raised_scan", <<>>)
        ELSE LoopHead(s, files_to_scan[s], number_of_files[s], idx[s] + 1, fs,
                      results[s] \o new)
  /\ UNCHANGED <<rule_files, rules, call_args, call_result>>
  /\ UNCHANGED <<cwd, files_list, tool_starts, archive, batch, batch_results,
                 temp_dir, orphan>>

\* gather() passes the first exception of a task to line 266; the coroutine
\* of asyncio.run ends with it and asyncio.run cancels the tasks that are
\* left (line 277). A cancelled task runs its finally clause. A call the
\* executor has started cannot be cancelled: its thread scans on.
BatchRaises ==
  /\ batch = "running"
  /\ AllStarted
  /\ \E s \in Samples : outcome[s] \in Raised
  /\ batch' = "raised"
  /\ LET left == {s \in Samples : pc[s] \in {"extracting", "matching"}}
         Keep(old, new) == [s \in Samples |-> IF s \in left THEN new ELSE old[s]]
     IN
     /\ \E running \in SUBSET {s \in left : pc[s] = "matching" /\ scan_future[s] = <<>>} :
          orphan' = [s \in Samples |-> IF s \in running THEN full_path[s] ELSE orphan[s]]
     /\ pc' = Keep(pc, "done")
     /\ outcome' = Keep(outcome, "cancelled")
     /\ fs' = {f \in fs : \A s \in left : ~IsUnder(f, temp_dir[s])}
     /\ wsdirs' = wsdirs \ {temp_dir[s] : s \in left}
     /\ returncode' = Keep(returncode, -1)
     /\ files_to_scan' = Keep(files_to_scan, <<>>)
     /\ number_of_files' = Keep(number_of_files, 0)
     /\ idx' = Keep(idx, 0)
     /\ full_path' = Keep(full_path, NoPath)
     /\ results' = Keep(results, <<>>)
     /\ scan_future' = Keep(scan_future, <<>>)
  /\ UNCHANGED <<rule_files, rules, call_args, call_result>>
  /\ UNCHANGED <<cwd, files_list, tool_starts, archive, batch_results, ret, temp_dir>>

RECURSIVE ConcatNewestFirst(_, _)
ConcatNewestFirst(lists, n) ==
  IF n = 0 THEN <<>> ELSE lists[n] \o ConcatNewestFirst(lists, n - 1)

RECURSIVE Concat(_, _)
\* The loop of lines 267-268 over the first n lists of all_results.
Concat(lists, n) == IF n = 0 THEN <<>> ELSE Concat(lists, n - 1) \o lists[n]

\* Lines 266-271: every task returned; the lists are concatenated in the
\* order gather() gives them, which is the order of the sample list.
BatchReturns ==
  /\ batch = "running"
  /\ \A s \in Samples : outcome[s] = "returned"
  /\ batch' = "returned"
  /\ batch_results' = Concat(ret, Len(files_list))
  /\ UNCHANGED <<rule_files, rules, call_args, call_result>>
  /\ UNCHANGED <<cwd, files_list, tool_starts, archive, fs, wsdirs, pc, outcome, ret,
                 temp_dir, returncode, files_to_scan, number_of_files, idx, full_path,
                 results, scan_future, orphan>>

\* The thread of a call whose coroutine was cancelled ends its scan.
OrphanEnds(s) ==
  /\ orphan[s] # NoPath
  /\ orphan' = [orphan EXCEPT ![s] = NoPath]
  /\ UNCHANGED <<rule_files, rules, call_args, call_result>>
  /\ UNCHANGED <<cwd, files_list, tool_starts, archive, fs, wsdirs, batch,
                 batch_results, pc, outcome, ret, temp_dir, returncode, files_to_scan,
                 number_of_files, idx, full_path, results, scan_future>>

Next ==
  \/ RunStart
  \/ \E s \in Samples : TaskStart(s)
  \/ \E s \in Samples : ToolExits(s)
  \/ \E s \in Samples : ExtractReturns(s)
  \/ \E s \in Samples : ScanEnds(s)
  \/ \E s \in Samples : MatchReturns(s)
  \/ BatchRaises
  \/ BatchReturns
  \/ \E s \in Samples : OrphanEnds(s)

Spec == Init /\ [][Next]_vars

SpecWide == InitWide /\ [][Next]_vars

SpecPair == InitPair /\ [][Next]_vars

\* MatchReturns(s) can be taken exactly when the worker thread's call of
\* sample s has ended.
MatchReturnsEnabled(s) == pc[s] = "matching" /\ scan_future[s] # <<>>

\* The event loop runs every coroutine that is ready to run, and the
\* external tool and the worker threads run on their own: no step that can
\* be taken is put off for ever. The last conjunct is weak fairness of
\* MatchReturns(s), with its enabling condition written out.
Fairness ==
  /\ WF_vars(RunStart) /\ WF_vars(BatchRaises) /\ WF_vars(BatchReturns)
  /\ \A s \in 1..NumSamples :
       /\ WF_vars(TaskStart(s)) /\ WF_vars(ToolExits(s)) /\ WF_vars(ExtractReturns(s))
       /\ WF_vars(ScanEnds(s)) /\ WF_vars(OrphanEnds(s))
       /\ ([]<>(~MatchReturnsEnabled(s)) \/ []<><<MatchReturns(s)>>_vars)

SpecRules == InitRules /\ [][Next]_vars

FairSpec == Init /\ [][Next]_vars /\ Fairness

\* ------------------------------------------- functions called on their own

\* The characters of the paths and names the functions are called with: the
\* separator, an allowed character, a printable character that is not
\* allowed, and a character that is not printable.
PathChars == {Sep, "a", "#", "NUL"}

\* The paths clean_and_ensure_path is called with: absolute and relative.
Paths == UNION {[1..n -> PathChars] : n \in 1..MaxPathLen}

\* The strings clean_string is called with.
Names == {<<>>} \cup Paths

\* Characters for which c.isprintable() and not c.isspace() is false.
Unacceptable == {"NUL", " "}

\* sanitize_name, line 108
sanitize_name(name) ==
  [i \in 1..Len(name) |-> IF name[i] \in Unacceptable THEN "_" ELSE name[i]]

\* The directory sanitize_directory is called with.
TreeRoot == <<Sep, "p", Sep, "t">>

\* The names of the entries of the tree: an acceptable name, a name that is
\* not acceptable, and the name sanitize_name gives for it.
TreeNames == {<<"a">>, <<"NUL">>, <<"_">>}

\* An entry is a file or a directory: `orig` is its path before the call,
\* `path` is where it is now.
Entry(path, kind) == [orig |-> path, path |-> path, kind |-> kind]

TreeEntries ==
  {Entry(PathJoin(TreeRoot, n), k) : n \in TreeNames, k \in {"file", "dir"}}
  \cup {Entry(PathJoin(PathJoin(TreeRoot, n), m), k) :
          n \in TreeNames, m \in TreeNames, k \in {"file", "dir"}}

\* The trees under TreeRoot: no two entries at one path, and every entry in
\* the root or in a directory of the tree.
Trees ==
  {tree \in UNION {{{f[i] : i \in 1..n} : f \in [1..n -> TreeEntries]} : n \in 0..MaxEntries} :
     /\ \A e, g \in tree : e.path = g.path => e = g
     /\ \A e \in tree :
          \/ Dirname(e.path) = TreeRoot
          \/ Entry(Dirname(e.path), "dir") \in tree}

\* os.rename(old, new) of a file, or of a directory with all it holds.
TreeRename(tree, old, new) ==
  {[orig |-> e.orig,
    path |-> IF e.path = old THEN new
             ELSE IF IsUnder(e.path, old)
             THEN new \o SubSeq(e.path, Len(old) + 1, Len(e.path))
             ELSE e.path,
    kind |-> e.kind] : e \in tree}

\* os.path.exists: an entry of the tree, the root, or the root's parent.
TreeExists(tree, path) ==
  path \in {e.path : e \in tree} \cup {TreeRoot, Dirname(TreeRoot)}

\* The orders in which a directory listing may give the names of a set.
Listings(names) ==
  {q \in [1..Cardinality(names) -> names] :
     \A i, j \in 1..Cardinality(names) : i # j => q[i] # q[j]}

RECURSIVE RenameFiles(_, _, _)
\* Lines 117-122 for the files of root.
RenameFiles(tree, root, files) ==
  IF files = <<>> THEN tree
  ELSE LET name == Head(files)
           original_path == PathJoin(root, name)
           new_path == PathJoin(root, sanitize_name(name))
       IN RenameFiles(IF original_path # new_path /\ ~TreeExists(tree, new_path)
                      THEN TreeRename(tree, original_path, new_path)
                      ELSE tree,
                      root, Tail(files))

RECURSIVE RenameDirs(_, _, _)
\* Lines 123-128 for the directories of root.
RenameDirs(tree, root, dirs) ==
  IF dirs = <<>> THEN tree
  ELSE LET name == Head(dirs)
           original_path == PathJoin(root, name)
           new_path == PathJoin(Dirname(root), sanitize_name(name))
       IN RenameDirs(IF original_path # new_path /\ ~TreeExists(tree, new_path)
                     THEN TreeRename(tree, original_path, new_path)
                     ELSE tree,
                     root, Tail(dirs))

\* The names of the entries of one kind that os.walk lists in directory top.
Listed(before, top, kind) ==
  {Basename(e.orig) : e \in {g \in before : g.kind = kind /\ Dirname(g.orig) = top}}

RECURSIVE WalkDir(_, _, _)
RECURSIVE WalkSeq(_, _, _, _)

\* os.walk(top, topdown=False) with the loop body of lines 117-128: the
\* sub-directories of top are walked first, in the order of its listing,
\* then top itself is handled. `before` is the tree as the call found it,
\* `trees` are the trees the walk may have made of it so far.
WalkSeq(trees, top, dirs, before) ==
  IF dirs = <<>> THEN trees
  ELSE WalkSeq(UNION {WalkDir(tree, PathJoin(top, Head(dirs)), before) : tree \in trees},
               top, Tail(dirs), before)

WalkDir(tree, top, before) ==
  UNION {{RenameDirs(RenameFiles(walked, top, files), top, dirs) :
            walked \in WalkSeq({tree}, top, dirs, before)} :
           dirs \in Listings(Listed(before, top, "dir")),
           files \in Listings(Listed(before, top, "file"))}

\* The trees sanitize_directory(directory) may leave (lines 116-128).
sanitize_directory(directory, tree) == WalkDir(tree, directory, tree)

\* One call of clean_and_ensure_path, of clean_string or of
\* sanitize_directory, with any argument.
InitCalls ==
  /\ TypeInit(0, 0, {}, {{}})
  /\ OneRuleFile
  /\ call_args \in [fn : {"clean_and_ensure_path"}, full_path : Paths]
                   \cup [fn : {"clean_string"}, input_str : Names, is_filename : BOOLEAN]
                   \cup [fn : {"sanitize_directory"}, directory : {TreeRoot}, tree : Trees]
  /\ call_result = <<>>

\* clean_and_ensure_path(full_path) is called, and called again with the path
\* it returned. The directories named by the path can be made; the call
\* raises only where os.makedirs is handed the empty string.
CleanPathCall ==
  /\ call_args.fn = "clean_and_ensure_path"
  /\ Len(call_result) < 2
  /\ Len(call_result) = 1 => ~call_result[1].raised
  /\ LET arg == IF call_result = <<>> THEN call_args.full_path ELSE call_result[1].value
     IN \E r \in RandomDraws(Basename(arg)) :
          LET new_path == clean_and_ensure_path(arg, r) IN
          call_result' = Append(call_result,
                                [value |-> new_path, raised |-> EnsureRaises(new_path)])
  /\ UNCHANGED call_args
  /\ UNCHANGED run_vars

\* clean_string(input_str, is_filename) is called.
CleanStringCall ==
  /\ call_args.fn = "clean_string"
  /\ call_result = <<>>
  /\ \E r \in RandomDraws(call_args.input_str) :
       call_result' = <<[value |-> clean_string(call_args.input_str, call_args.is_filename, r),
                         raised |-> FALSE]>>
  /\ UNCHANGED call_args
  /\ UNCHANGED run_vars

\* sanitize_directory(directory) is called.
SanitizeDirectoryCall ==
  /\ call_args.fn = "sanitize_directory"
  /\ call_result = <<>>
  /\ \E after \in sanitize_directory(call_args.directory, call_args.tree) :
       call_result' = <<[value |-> after, raised |-> FALSE]>>
  /\ UNCHANGED call_args
  /\ UNCHANGED run_vars

NextCalls ==
  \/ CleanPathCall
  \/ CleanStringCall
  \/ SanitizeDirectoryCall

SpecCalls == InitCalls /\ [][NextCalls]_vars

\* ----------------------------------------------------------------- claims

\* The extract_file_async calls whose tool was started and that have not
\* returned yet.
InFlight == {s \in Samples : pc[s] = "extracting"}

\* C1: at no point are more extract_file_async calls in flight (tool started,
\* call not yet returned) than the value of the semaphore.
C1_AdmissionBound == Cardinality(InFlight) <= SemValue

\* C2: once the rules are compiled, run_yara_rules_async never raises: it
\* returns, and what it returns holds the records of every sample.
C2_BatchNeverRaises ==
  /\ batch # "raised"
  /\ batch = "returned" => batch_results = Concat(ret, Len(files_list))

\* C3: a failure of clean_and_ensure_path or of the move of one member does
\* not end the scan of the sample: no invocation ends with that exception.
C3_MoveFailureIsolated == \A s \in Samples : outcome[s] # "raised_move"

\* C4: when an invocation that made a temporary directory has ended, by
\* return, by an exception or by cancellation, the directory and everything
\* in it are deleted.
C4_WorkspaceDeleted ==
  \A s \in Samples :
    pc[s] = "done" /\ temp_dir[s] # NoPath =>
      /\ temp_dir[s] \notin wsdirs
      /\ FilesUnder(fs, temp_dir[s]) = {}

\* An invocation with a temporary directory was cancelled, another ended
\* with an exception, and a third path, the normal return, is covered by
\* the same predicate in other runs.
C4_Witness ==
  \E s, u \in Samples :
    /\ pc[s] = "done" /\ outcome[s] = "cancelled" /\ temp_dir[s] # NoPath
    /\ pc[u] = "done" /\ outcome[u] = "raised_move" /\ temp_dir[u] # NoPath

\* C5: no two running invocations have the same temporary directory, and no
\* call of the worker pool scans a file of a temporary directory once the
\* invocation that owns the directory has ended and deleted it.
C5_WorkspaceExclusive ==
  /\ \A s, u \in Samples :
       s # u /\ pc[s] \in {"extracting", "matching"} /\ pc[u] \in {"extracting", "matching"}
         => temp_dir[s] # temp_dir[u]
  /\ \A s \in Samples :
       orphan[s] # NoPath => ~IsUnder(R(orphan[s]), temp_dir[s])

\* C6: a sample that is not on disk gets no temporary directory, no
\* extraction, no scan and no record; its invocation returns the empty
\* list; when the batch returns, it returns the records of the other
\* samples, and when the batch raises, a sample that is on disk raised.
C6_MissingSample ==
  \A s \in Samples :
    files_list[s] \notin fs =>
      /\ temp_dir[s] = NoPath
      /\ pc[s] \in {"created", "done"}
      /\ outcome[s] \in {"none", "returned"}
      /\ ret[s] = <<>> /\ results[s] = <<>>
      /\ full_path[s] = NoPath /\ orphan[s] = NoPath
      /\ batch = "returned" =>
           /\ batch_results = Concat(ret, Len(files_list))
           /\ \A i \in 1..Len(batch_results) : batch_results[i].file_path # files_list[s]
      /\ batch = "raised" =>
           \E u \in Samples : files_list[u] \in fs /\ outcome[u] \in Raised

\* A batch with a missing sample returned the records of another sample.
C6_Witness ==
  \E s \in Samples :
    /\ files_list[s] \notin fs
    /\ pc[s] = "done"
    /\ batch = "returned"
    /\ Len(batch_results) > 0

\* The step of sample s in which extract_file_async, whose tool has exited
\* with a non-zero status, is left.
AfterFailedExtraction(s) ==
  /\ pc[s] = "extracting"
  /\ returncode[s] > 0
  /\ pc'[s] # "extracting"
  /\ outcome'[s] # "cancelled"

\* C7 as stated: after a non-zero exit status extract_file_async returns
\* normally, the original file is scanned, and the list of files to scan is
\* the original file only.
C7_OnlyOriginal ==
  [][\A s \in Samples :
       AfterFailedExtraction(s) =>
         /\ pc'[s] = "matching" /\ idx'[s] = 1 /\ full_path'[s] = files_list[s]
         /\ files_to_scan'[s] = <<files_list[s]>>
         /\ number_of_files'[s] = 1]_vars

\* C7, amended: after a non-zero exit status extract_file_async returns
\* normally, the original file is scanned first, and the list of files to
\* scan is the original file followed by the files the tool left in the
\* temporary directory before it failed: number_of_files is 1 plus their
\* number, and is 1 when the tool left nothing.
C7_FailedExtractionStillScans ==
  [][\A s \in Samples :
       AfterFailedExtraction(s) =>
         /\ pc'[s] = "matching" /\ idx'[s] = 1 /\ full_path'[s] = files_list[s]
         /\ files_to_scan'[s][1] = files_list[s]
         /\ {files_to_scan'[s][i] : i \in 2..Len(files_to_scan'[s])}
              = FilesUnder(fs, temp_dir[s])
         /\ number_of_files'[s] = 1 + Cardinality(FilesUnder(fs, temp_dir[s]))]_vars

\* The tool failed on an archive of two members after it had written one of
\* them, and the original file is being scanned with number_of_files = 2.
C7_Witness ==
  \E s \in Samples :
    /\ pc[s] = "matching" /\ idx[s] = 1 /\ full_path[s] = files_list[s]
    /\ Cardinality(archive[s]) = 2
    /\ number_of_files[s] = 2

\* The step of sample s in which scan_file_async is left after the engine
\* raised yara.Error for the idx-th file.
AfterEngineError(s) ==
  /\ pc[s] = "matching"
  /\ scan_future[s] # <<>>
  /\ scan_future[s][1].raises
  /\ scan_future'[s] = <<>>
  /\ outcome'[s] # "cancelled"

\* C8: when the engine raises yara.Error for one file, the file adds no
\* record, the error does not leave scan_file_async, and the loop goes on:
\* to the next file, or to the normal return after the last one. (The next
\* file is a member whose rename may raise; that is the subject of C3.)
C8_EngineErrorIsolated ==
  [][\A s \in Samples :
       AfterEngineError(s) =>
         /\ outcome'[s] # "raised_scan"
         /\ idx[s] = Len(files_to_scan[s]) =>
              outcome'[s] = "returned" /\ ret'[s] = results[s]
         /\ idx[s] < Len(files_to_scan[s]) =>
              \/ /\ pc'[s] = "matching"
                 /\ idx'[s] = idx[s] + 1
                 /\ results'[s] = results[s]
              \/ /\ outcome'[s] = "raised_move"
                 /\ ~is_valid_path(files_to_scan[s][idx[s] + 1])]_vars

\* After the engine raised for the original file, a member was scanned and
\* its record is in the list.
C8_Witness ==
  \E s \in Samples :
    /\ pc[s] = "matching" /\ idx[s] = 3
    /\ Len(results[s]) = 1
    /\ results[s][1].sub_file_basename # Basename(files_list[s])
    /\ scan_future[s] # <<>> /\ scan_future[s][1].raises

\* C9: every record of a sample carries, as number_of_files, 1 plus the
\* number of files found under the temporary directory after extraction:
\* the same value on all records of the sample, whatever the scans gave.
C9_NumberOfFiles ==
  [][\A s \in Samples :
       /\ pc[s] = "extracting" /\ pc'[s] = "matching" =>
            number_of_files'[s] = 1 + Cardinality(FilesUnder(fs, temp_dir[s]))
       /\ pc[s] = "matching" /\ pc'[s] = "matching" =>
            number_of_files'[s] = number_of_files[s]
       /\ pc'[s] = "matching" =>
            \A i \in 1..Len(results'[s]) :
              results'[s][i].number_of_files = number_of_files'[s]
       /\ pc[s] = "matching" /\ outcome'[s] = "returned" =>
            \A i \in 1..Len(ret'[s]) :
              ret'[s][i].number_of_files = number_of_files[s]
       /\ \A i, j \in 1..Len(batch_results') :
            batch_results'[i].file_path = batch_results'[j].file_path =>
              batch_results'[i].number_of_files = batch_results'[j].number_of_files]_vars

\* A sample of three files has one record, of its third file, while the
\* first two gave nothing: the record carries 3.
C9_Witness ==
  \E s \in Samples :
    /\ outcome[s] = "returned"
    /\ Len(ret[s]) = 1
    /\ ret[s][1].number_of_files = 3

MovesMember(s) ==
  /\ pc'[s] = "matching"
  /\ idx'[s] # idx[s]
  /\ idx'[s] >= 2
  /\ full_path'[s] # files_to_scan'[s][idx'[s]]

\* C11: moving a member to its sanitized location never overwrites a file
\* that is already there, so no other file of the sample is lost and no two
\* members of a sample are scanned at the same path; this holds also for
\* members that differ only in characters that are dropped from a directory
\* name.
C11_NoCollision ==
  [][\A s \in Samples : MovesMember(s) => R(full_path'[s]) \notin fs]_vars

\* Sample a's invocation has returned while sample b's has not ended.
CompletedBefore(a, b) == a # b /\ outcome[a] = "returned" /\ pc[b] # "done"

\* All records of sample a come before all records of sample b in the list
\* the batch returned.
Precede(a, b) ==
  \A i, j \in 1..Len(batch_results) :
    batch_results[i].file_path = files_list[a] /\ batch_results[j].file_path = files_list[b]
      => i < j

\* C12 as stated: when sample a's invocation completes before sample b's,
\* all of a's records come before all of b's in the list the batch returns.
C12_CompletionOrder ==
  \A a, b \in 1..NumSamples :
    [](CompletedBefore(a, b) => [](batch = "returned" => Precede(a, b)))

\* C12, amended: the list the batch returns is the concatenation of the
\* samples' lists in the order of the sample list: the records of a sample
\* are its list, in its order, and they come before the records of every
\* sample that is later in the sample list.
C12_InputOrder ==
  batch = "returned" =>
    /\ \A a, b \in Samples : a < b => Precede(a, b)
    /\ \A s \in Samples :
         LET Mine(rec) == rec.file_path = files_list[s]
         IN SelectSeq(batch_results, Mine) = ret[s]

\* The batch returned records of two samples.
C12_Witness ==
  /\ batch = "returned"
  /\ \E a, b \in Samples : a < b /\ ret[a] # <<>> /\ ret[b] # <<>>

\* C13: for a path of printable characters only, absolute or relative,
\* clean_and_ensure_path returns the path unchanged and does not raise.
C13_ValidPathUnchanged ==
  /\ call_args # <<>>
  /\ call_args.fn = "clean_and_ensure_path"
  /\ is_valid_path(call_args.full_path)
  /\ Len(call_result) >= 1
  => /\ call_result[1].value = call_args.full_path
     /\ ~call_result[1].raised

\* C14: whatever the random substitutions, clean_and_ensure_path called with
\* the path it returned returns that path again.
C14_Idempotent ==
  /\ call_args # <<>>
  /\ call_args.fn = "clean_and_ensure_path"
  /\ Len(call_result) = 2
  => /\ call_result[2].value = call_result[1].value
     /\ ~call_result[2].raised

\* Two rule files of the rules directory have the same name once the
\* extension is removed.
DuplicateRuleNames ==
  \E f, g \in rule_files :
    f # g /\ IsRuleFile(f) /\ IsRuleFile(g) /\ Namespace(f) = Namespace(g)

\* C15: when two rule files have the same name without the extension, the
\* batch ends with a configuration error before any scan: no rules are
\* compiled, no temporary directory is made and no sample is started.
C15_DuplicateRulesRejected ==
  DuplicateRuleNames =>
    /\ batch \in {"init", "config_error"}
    /\ rules = NoRules
    /\ wsdirs = {}
    /\ \A s \in Samples : pc[s] = "created"

\* C16: sanitize_directory leaves every entry whose name is acceptable where
\* it is, keeps every entry it renames in the directory the entry was in
\* (which may itself have been renamed), gives a renamed entry the sanitized
\* name, and neither loses nor adds an entry.
C16_RenameInPlace ==
  /\ call_args # <<>>
  /\ call_args.fn = "sanitize_directory"
  /\ call_result # <<>>
  => LET after == call_result[1].value
         Now(orig) == IF orig = TreeRoot THEN TreeRoot
                      ELSE (CHOOSE e \in after : e.orig = orig).path
     IN /\ Cardinality(after) = Cardinality(call_args.tree)
        /\ Cardinality({e.path : e \in after}) = Cardinality(call_args.tree)
        /\ \A e \in after :
             /\ Dirname(e.path) = Now(Dirname(e.orig))
             /\ Basename(e.path) \in {Basename(e.orig), sanitize_name(Basename(e.orig))}
             /\ sanitize_name(Basename(e.orig)) = Basename(e.orig) =>
                  Basename(e.path) = Basename(e.orig)

\* C17: clean_string(name, is_filename=True) returns a string of the length
\* of name, in which every allowed character of name is kept at its place
\* and every other character is replaced by one letter or digit, so that
\* the result has allowed characters only and is empty only for the empty
\* name.
C17_FilenameCleaned ==
  /\ call_args # <<>>
  /\ call_args.fn = "clean_string"
  /\ call_args.is_filename
  /\ call_result # <<>>
  => LET name == call_args.input_str
         cleaned == call_result[1].value
     IN /\ ~call_result[1].raised
        /\ Len(cleaned) = Len(name)
        /\ \A i \in 1..Len(name) :
             /\ name[i] \in valid_chars => cleaned[i] = name[i]
             /\ name[i] \notin valid_chars => cleaned[i] \in AsciiLettersDigits
             /\ cleaned[i] \in valid_chars
        /\ name # <<>> => cleaned # <<>>

\* A name with two characters that are not allowed was cleaned, and the two
\* were replaced by different characters; an allowed character between or
\* beside them was kept.
C17_Witness ==
  /\ call_args # <<>>
  /\ call_args.fn = "clean_string"
  /\ call_args.is_filename
  /\ call_result # <<>>
  /\ \E i, j \in 1..Len(call_args.input_str) :
       /\ call_args.input_str[i] \notin valid_chars
       /\ call_args.input_str[j] \notin valid_chars
       /\ call_result[1].value[i] # call_result[1].value[j]
  /\ \E k \in 1..Len(call_args.input_str) : call_args.input_str[k] \in valid_chars

\* The calls of sample s that were handed to the worker pool and whose
\* result its coroutine has not been given: the call for the idx-th file of
\* the list, while the coroutine waits at line 219.
PendingScans(s) == IF pc[s] = "matching" THEN {idx[s]} ELSE {}

\* C18 as stated: in a sample with more than one file to scan, there is a
\* moment at which the calls for two of its files are pending together.
C18_ConcurrentScans ==
  \A s \in 1..NumSamples :
    <>(pc[s] = "matching" /\ idx[s] >= 2) => <>(Cardinality(PendingScans(s)) >= 2)

\* C18, amended: the files of a sample are scanned one at a time, in the
\* order of the list: while the call for one file is pending it is the only
\* call of the sample, only the files before it have given records, and
\* the files after it have not been moved yet, so that no call for them can
\* have been submitted.
C18_ScansSequential ==
  \A s \in Samples :
    pc[s] = "matching" =>
      /\ idx[s] \in 1..Len(files_to_scan[s])
      /\ PendingScans(s) = {idx[s]}
      /\ orphan[s] = NoPath
      /\ Len(results[s]) <= MaxMatches * (idx[s] - 1)
      /\ \A i \in (idx[s] + 1)..Len(files_to_scan[s]) : R(files_to_scan[s][i]) \in fs

\* The call for the second of three files of a sample is in flight, the
\* record of the first file is in the list and the third file, whose path is
\* not printable, waits to be moved.
C18_Witness ==
  \E s \in Samples :
    /\ pc[s] = "matching" /\ idx[s] = 2
    /\ scan_future[s] = <<>>
    /\ Len(results[s]) >= 1
    /\ Len(files_to_scan[s]) = 3
    /\ ~is_valid_path(files_to_scan[s][3])

\* The records the call that has ended for the idx-th file of sample s is
\* to give: one per match object, none when the engine raised.
RecordsDue(s) ==
  LET o == scan_future[s][1] IN
  [j \in 1..(IF o.raises THEN 0 ELSE o.n) |->
     [file_path |-> files_list[s],
      sub_file_basename |-> Basename(full_path[s]),
      number_of_files |-> number_of_files[s],
      match |-> j]]

\* The path handed to the matcher for the listed path p of sample s: p, or
\* what lines 215-217 made of it.
ScannedFor(s, p) ==
  IF StartsWith(p, temp_dir[s]) /\ ~is_valid_path(p)
  THEN {clean_and_ensure_path(p, r) : r \in RandomDraws(Basename(p))}
  ELSE {p}

\* C19: in an invocation that returns, the files of the list are handed to
\* the matcher one after the other, each once: the first when the list is
\* made, the next when the call for the one before has returned, and the
\* invocation returns after the call for the last; the steps of the other
\* samples change nothing of this. Each returned call adds
\* one record per match object, with the sample's path as file_path and the
\* basename of the path that was scanned as sub_file_basename, and nothing
\* when there was no match; the list the invocation returns is made of
\* these records only.
C19_OneRecordPerMatch ==
  [][\A s \in Samples :
       /\ pc[s] = "extracting" /\ pc'[s] = "matching" =>
            /\ idx'[s] = 1
            /\ results'[s] = <<>>
            /\ scan_future'[s] = <<>>
       /\ pc[s] = "matching" /\ pc'[s] = "matching" =>
            /\ files_to_scan'[s] = files_to_scan[s]
            /\ \/ /\ scan_future'[s] = scan_future[s]
                  /\ idx'[s] = idx[s]
                  /\ full_path'[s] = full_path[s]
                  /\ results'[s] = results[s]
               \/ /\ scan_future[s] = <<>> /\ scan_future'[s] # <<>>
                  /\ idx'[s] = idx[s]
                  /\ full_path'[s] = full_path[s]
                  /\ results'[s] = results[s]
               \/ /\ scan_future[s] # <<>> /\ scan_future'[s] = <<>>
                  /\ idx'[s] = idx[s] + 1
                  /\ results'[s] = results[s] \o RecordsDue(s)
       /\ pc'[s] = "matching" /\ idx'[s] # idx[s] =>
            /\ files_to_scan'[s][1] = files_list[s]
            /\ idx'[s] \in 1..Len(files_to_scan'[s])
            /\ full_path'[s] \in ScannedFor(s, files_to_scan'[s][idx'[s]])
       /\ pc[s] = "matching" /\ outcome'[s] = "returned" =>
            /\ idx[s] = Len(files_to_scan[s])
            /\ scan_future[s] # <<>>
            /\ ret'[s] = results[s] \o RecordsDue(s)]_vars

\* A sample with two members has returned two records: one of its three
\* files had no match, and one record is of a member that was scanned under
\* a new name.
C19_Witness ==
  \E s \in Samples :
    /\ outcome[s] = "returned"
    /\ Cardinality(archive[s]) = 2
    /\ Len(ret[s]) = 2
    /\ \E k \in 1..2 :
         ret[s][k].sub_file_basename \notin
           {Basename(m) : m \in archive[s]} \cup {Basename(files_list[s])}

\* No invocation is under way.
NoneRunning == \A s \in Samples : pc[s] \in {"created", "done"}

\* C20: every path an invocation scans, other than the sample's own, and so
\* every path it has moved a member to, lies inside the temporary directory
\* of that invocation; and when no invocation is under way the disk holds
\* no file other than the samples: nothing that was extracted is left.
C20_WorkspaceContainment ==
  /\ \A s \in Samples :
       pc[s] = "matching" /\ idx[s] >= 2 => IsUnder(R(full_path[s]), temp_dir[s])
  /\ NoneRunning => fs \subseteq {R(files_list[s]) : s \in Samples}

====
